---- MODULE Spec2Model ----
(***************************************************************************)
(* A model of package grab (common-fate/grab): the pointer helpers Ptr and *)
(* Value, the conditional If, FirstNonZero, IsZero, the pagination         *)
(* aggregator AllPages, and the slice helpers Map, Filter, FlatMap and     *)
(* MapFromSlice.                                                           *)
(*                                                                         *)
(* Go values of the generic types T and Token are small naturals whose     *)
(* zero value is Zero.  A pointer is an address into `heap` (a sequence of *)
(* cells); address Nil is the nil pointer.  A slice is a record that keeps *)
(* Go's distinction between the nil slice and an empty non-nil slice.      *)
(***************************************************************************)
EXTENDS Naturals, Sequences, FiniteSets

VARIABLES
    heap,       \* cells allocated by Ptr: heap[a] is the value at address a
    op,         \* the helper applied last ("none" before the first)
    args,       \* its arguments
    res,        \* its result
    pc,         \* AllPages: "loop" at the head of the for loop, "done" after return
    allItems,   \* AllPages: local allItems
    nextToken,  \* AllPages: local nextToken
    ret,        \* AllPages: the returned pair (items, err)
    log,        \* the fetchPage calls made so far: argument and result of each
    ctx         \* AllPages: the context given by the caller, and whether it is cancelled

vars == <<heap, op, args, res, pc, allItems, nextToken, ret, log, ctx>>

pureVars == <<op, args, res>>
pageVars == <<pc, allItems, nextToken, ret, log, ctx>>

----------------------------------------------------------------------------
(* Bounds of the model. *)

MaxHeap == 3
MaxElems == 3
MaxCalls == 3
MaxPageLen == 2
MaxItems == 2

(* The values the generic parameters range over. *)
Vals == {0, 1, 2}
ItemVals == {"a", "b"}
TokenVals == {0, 1}
Errors == {"mock", "other"}
FVals == {"x", "y"}

----------------------------------------------------------------------------
(* Go's values. *)

\* `var zero T`: the zero value of the type
Zero == 0

\* the nil pointer
Nil == 0

\* a nil error
NoErr == "nil"

\* a nil slice: `var allItems []T`
NilSlice == [isNil |-> TRUE, elems |-> <<>>]

MkSlice(s) == [isNil |-> FALSE, elems |-> s]

SeqsUpTo(S, n) == UNION {[1..k -> S] : k \in 0..n}

\* the result of a helper that returned, and of one that panicked
Returned(v) == [panic |-> FALSE, val |-> v]
Panic == [panic |-> TRUE, val |-> Zero]

\* *p: a nil pointer dereference panics
Deref(h, p) == IF p = Nil THEN Panic ELSE Returned(h[p])

\* (mutant) `allItems = items`: the page replaces what was accumulated
appendOverwrite(s, items) == items

\* (mutant) `allItems = append([]T{}, ...)`: the result is never the nil slice
appendNonNil(s, items) == [isNil |-> FALSE, elems |-> s.elems \o items.elems]

\* append(s, items...): appending nothing returns s itself, nil if s is nil
append(s, items) ==
    IF Len(items.elems) = 0
    THEN s
    ELSE [isNil |-> FALSE, elems |-> s.elems \o items.elems]

----------------------------------------------------------------------------
(* The helpers. *)

\* (mutant) the address of a cell that already exists instead of a new copy
PtrReuse(h, o) ==
    IF Len(h) > 0
    THEN [heap |-> h, ptr |-> Len(h)]
    ELSE [heap |-> Append(h, o), ptr |-> Len(h) + 1]

\* func Ptr(o T) *T { return &o }: a fresh cell holding a copy of o
Ptr(h, o) == [heap |-> Append(h, o), ptr |-> Len(h) + 1]

\* (mutant) `return *o` without the nil check
ValueNoNilCheck(h, o) == Deref(h, o)

\* func Value(o *T) T
Value(h, o) ==
    IF o = Nil
    THEN Returned(Zero)
    ELSE Deref(h, o)

\* (mutant) the branches exchanged
IfSwapped(condition, ifTrue, ifFalse) ==
    IF condition THEN ifFalse ELSE ifTrue

\* func If(condition bool, ifTrue, ifFalse T) T
If(condition, ifTrue, ifFalse) ==
    IF condition THEN ifTrue ELSE ifFalse

\* the range loop of FirstNonZero, from index i on
RECURSIVE FirstNonZeroFrom(_, _)
FirstNonZeroFrom(elements, i) ==
    IF i > Len(elements)
    THEN Zero
    ELSE IF elements[i] # Zero
         THEN elements[i]
         ELSE FirstNonZeroFrom(elements, i + 1)

\* (mutant) the loop starts one element late
FirstNonZeroSkipFirst(elements) == FirstNonZeroFrom(elements, 2)

\* func FirstNonZero(elements ...T) T
FirstNonZero(elements) == FirstNonZeroFrom(elements, 1)

\* (mutant) `value != zero`
IsZeroInverted(value) == value # Zero

\* (mutant) no value counts as zero
IsZeroNever(value) == FALSE

\* func IsZero(value T) bool
IsZero(value) == value = Zero

----------------------------------------------------------------------------
(* AllPages. *)

\* what fetchPage may return, given the heap: any page of items with a nil
\* token or a token it allocates, or an error (with any items beside it)
Slices == {NilSlice} \cup {MkSlice(s) : s \in SeqsUpTo(ItemVals, MaxPageLen)}

FetchResults(h) ==
        {[items |-> s, newToken |-> Nil, err |-> e, heap |-> h] :
            s \in Slices, e \in Errors \cup {NoErr}}
        \cup
        {[items |-> s, newToken |-> Ptr(h, v).ptr, err |-> NoErr, heap |-> Ptr(h, v).heap] :
            s \in Slices, v \in TokenVals}

\* (mutant) `return allItems, err`: the partial result beside the error
ErrReturnPartial(all, err) == [items |-> all, err |-> err]

\* `return nil, err`
ErrReturn(all, err) == [items |-> NilSlice, err |-> err]

\* `return allItems, nil`
OkReturn(all) == [items |-> all, err |-> NoErr]

\* (mutant) an unconditional break
StopAlways(h, newToken) == TRUE

\* (mutant) only the nil check
StopNilOnly(h, newToken) == newToken = Nil

\* `if newToken == nil || IsZero(*newToken) { break }`
Stop(h, newToken) == newToken = Nil \/ IsZero(Deref(h, newToken).val)

NoRet == [items |-> NilSlice, err |-> NoErr]

\* (mutant) `nextToken = newToken` is missing: the old token is kept
IterationKeepToken(all, next, r) ==
    IF r.err # NoErr
    THEN [pc |-> "done", allItems |-> all, nextToken |-> next,
          ret |-> ErrReturn(all, r.err)]
    ELSE LET acc == append(all, r.items)
         IN  IF Stop(r.heap, r.newToken)
             THEN [pc |-> "done", allItems |-> acc, nextToken |-> next,
                   ret |-> OkReturn(acc)]
             ELSE [pc |-> "loop", allItems |-> acc, nextToken |-> next,
                   ret |-> NoRet]

\* one iteration of the for loop on fetchPage's result r
Iteration(all, next, r) ==
    IF r.err # NoErr
    THEN [pc |-> "done", allItems |-> all, nextToken |-> next,
          ret |-> ErrReturn(all, r.err)]
    ELSE LET acc == append(all, r.items)
         IN  IF Stop(r.heap, r.newToken)
             THEN [pc |-> "done", allItems |-> acc, nextToken |-> next,
                   ret |-> OkReturn(acc)]
             ELSE [pc |-> "loop", allItems |-> acc, nextToken |-> r.newToken,
                   ret |-> NoRet]

\* (mutant) a context of its own instead of the caller's
ForwardBackground(c) == [name |-> "background", cancelled |-> FALSE]

\* the context AllPages passes to fetchPage: `fetchPage(ctx, nextToken)`
Forward(c) == c

\* the entry of the log for a call with argument tok and result r
Call(tok, r) ==
    [token |-> tok, items |-> r.items, newToken |-> r.newToken, err |-> r.err,
     ctx |-> Forward(ctx).name, cancelled |-> Forward(ctx).cancelled]

AllPagesStep ==
    /\ pc = "loop"
    /\ Len(log) < MaxCalls
    /\ \E r \in FetchResults(heap) :
          LET n == Iteration(allItems, nextToken, r)
          IN  /\ heap' = r.heap
              /\ log' = Append(log, Call(nextToken, r))
              /\ pc' = n.pc
              /\ allItems' = n.allItems
              /\ nextToken' = n.nextToken
              /\ ret' = n.ret
    /\ UNCHANGED <<pureVars, ctx>>

\* the caller cancels the context (or its deadline passes) while AllPages runs
Cancel ==
    /\ pc = "loop"
    /\ ~ctx.cancelled
    /\ ctx' = [ctx EXCEPT !.cancelled = TRUE]
    /\ UNCHANGED <<heap, pureVars, pc, allItems, nextToken, ret, log>>

----------------------------------------------------------------------------
(* Applications of the helpers. *)

CallPtr ==
    /\ Len(heap) < MaxHeap
    /\ \E o \in Vals :
          /\ heap' = Ptr(heap, o).heap
          /\ op' = "Ptr"
          /\ args' = [o |-> o]
          /\ res' = Returned(Ptr(heap, o).ptr)
    /\ UNCHANGED pageVars

CallValue ==
    /\ \E o \in {Nil} \cup (1..Len(heap)) :
          /\ op' = "Value"
          /\ args' = [o |-> o]
          /\ res' = Value(heap, o)
    /\ UNCHANGED <<heap, pageVars>>

CallIf ==
    /\ \E condition \in BOOLEAN, ifTrue \in Vals, ifFalse \in Vals :
          /\ op' = "If"
          /\ args' = [condition |-> condition, ifTrue |-> ifTrue, ifFalse |-> ifFalse]
          /\ res' = Returned(If(condition, ifTrue, ifFalse))
    /\ UNCHANGED <<heap, pageVars>>

CallFirstNonZero ==
    /\ \E elements \in SeqsUpTo(Vals, MaxElems) :
          /\ op' = "FirstNonZero"
          /\ args' = [elements |-> elements]
          /\ res' = Returned(FirstNonZero(elements))
    /\ UNCHANGED <<heap, pageVars>>

CallIsZero ==
    /\ \E value \in Vals :
          /\ op' = "IsZero"
          /\ args' = [value |-> value]
          /\ res' = Returned(IsZero(value))
    /\ UNCHANGED <<heap, pageVars>>

----------------------------------------------------------------------------
(* The slice helpers. *)

\* the slices passed as `items`
ItemSlices == {NilSlice} \cup {MkSlice(s) : s \in SeqsUpTo(Vals, MaxItems)}

\* the functions passed as `fn` to Map
Fns == [Vals -> FVals]

\* the predicates passed as `fn` to Filter
Preds == [Vals -> BOOLEAN]

\* the functions passed as `fn` to FlatMap: each value gives no element, one or two
FlatFns == [Vals -> {NilSlice, MkSlice(<<"x">>), MkSlice(<<"y", "x">>)}]

\* `var result []F` of Map, with the calls of fn made so far
NoResult == [result |-> NilSlice, calls |-> <<>>]

\* the range loop of Map, from index i on
RECURSIVE MapFrom(_, _, _, _)
MapFrom(items, fn, i, acc) ==
    IF i > Len(items.elems)
    THEN acc
    ELSE LET item == items.elems[i]
         IN  MapFrom(items, fn, i + 1,
                     [result |-> append(acc.result, MkSlice(<<fn[item]>>)),
                      calls |-> Append(acc.calls, item)])

\* (mutant) the loop stops one element early
MapDropLast(items, fn) ==
    MapFrom([items EXCEPT !.elems = SubSeq(items.elems, 1, Len(items.elems) - 1)],
            fn, 1, NoResult)

\* func Map(items []T, fn func(T) F) []F
Map(items, fn) == MapFrom(items, fn, 1, NoResult)

\* the range loop of Filter, from index i on
RECURSIVE FilterFrom(_, _, _, _)
FilterFrom(items, fn, i, result) ==
    IF i > Len(items.elems)
    THEN result
    ELSE LET item == items.elems[i]
         IN  FilterFrom(items, fn, i + 1,
                        IF fn[item] THEN append(result, MkSlice(<<item>>)) ELSE result)

\* (mutant) `if !fn(item)`
FilterNegated(items, fn) ==
    FilterFrom(items, [x \in DOMAIN fn |-> ~fn[x]], 1, NilSlice)

\* (mutant) `result := []T{}`
FilterNonNil(items, fn) == FilterFrom(items, fn, 1, MkSlice(<<>>))

\* func Filter(items []T, fn func(T) bool) []T
Filter(items, fn) == FilterFrom(items, fn, 1, NilSlice)

\* the range loop of FlatMap, from index i on
RECURSIVE FlatMapFrom(_, _, _, _)
FlatMapFrom(items, fn, i, result) ==
    IF i > Len(items.elems)
    THEN result
    ELSE FlatMapFrom(items, fn, i + 1, append(result, fn[items.elems[i]]))

\* (mutant) the sub-sequences are collected in reverse input order
FlatMapReversed(items, fn) ==
    FlatMapFrom([items EXCEPT !.elems =
                    [i \in 1..Len(items.elems) |-> items.elems[Len(items.elems) + 1 - i]]],
                fn, 1, NilSlice)

\* func FlatMap(items []T, fn func(T) []F) []F
FlatMap(items, fn) == FlatMapFrom(items, fn, 1, NilSlice)

\* (mutant) `result[item] = zero`: the value is not stored
MapPutZero(m, k, v) == [x \in DOMAIN m \cup {k} |-> IF x = k THEN FALSE ELSE m[x]]

\* `result[item] = value`
MapPut(m, k, v) == [x \in DOMAIN m \cup {k} |-> IF x = k THEN v ELSE m[x]]

\* `make(map[T]F, len(items))`: an empty map
EmptyMap == [x \in {} |-> FALSE]

\* the range loop of MapFromSlice, from index i on
RECURSIVE MapFromSliceFrom(_, _, _, _)
MapFromSliceFrom(items, value, i, result) ==
    IF i > Len(items.elems)
    THEN result
    ELSE MapFromSliceFrom(items, value, i + 1, MapPut(result, items.elems[i], value))

\* func MapFromSlice(items []T, value F) map[T]F
MapFromSlice(items, value) == MapFromSliceFrom(items, value, 1, EmptyMap)

CallMap ==
    /\ \E items \in ItemSlices, fn \in Fns :
          /\ op' = "Map"
          /\ args' = [items |-> items, fn |-> fn]
          /\ LET m == Map(items, fn)
             IN  res' = [panic |-> FALSE, val |-> m.result, calls |-> m.calls]
    /\ UNCHANGED <<heap, pageVars>>

CallFilter ==
    /\ \E items \in ItemSlices, fn \in Preds :
          /\ op' = "Filter"
          /\ args' = [items |-> items, fn |-> fn]
          /\ res' = Returned(Filter(items, fn))
    /\ UNCHANGED <<heap, pageVars>>

CallFlatMap ==
    /\ \E items \in ItemSlices, fn \in FlatFns :
          /\ op' = "FlatMap"
          /\ args' = [items |-> items, fn |-> fn]
          /\ res' = Returned(FlatMap(items, fn))
    /\ UNCHANGED <<heap, pageVars>>

CallMapFromSlice ==
    /\ \E items \in ItemSlices, value \in BOOLEAN :
          /\ op' = "MapFromSlice"
          /\ args' = [items |-> items, value |-> value]
          /\ res' = Returned(MapFromSlice(items, value))
    /\ UNCHANGED <<heap, pageVars>>

----------------------------------------------------------------------------

Init ==
    /\ heap = <<>>
    /\ op = "none"
    /\ args = [none |-> TRUE]
    /\ res = Returned(Zero)
    /\ pc = "loop"
    /\ allItems = NilSlice
    /\ nextToken = Nil
    /\ ret = NoRet
    /\ log = <<>>
    /\ ctx = [name |-> "ctx", cancelled |-> FALSE]

\* a call of AllPages
Next ==
    \/ AllPagesStep
    \/ Cancel

Spec == Init /\ [][Next]_vars

\* calls of the helpers
NextPure ==
    \/ CallPtr
    \/ CallValue
    \/ CallIf
    \/ CallFirstNonZero
    \/ CallIsZero

SpecPure == Init /\ [][NextPure]_vars

\* calls of the slice helpers
NextSlices ==
    \/ CallMap
    \/ CallFilter
    \/ CallFlatMap
    \/ CallMapFromSlice

SpecSlices == Init /\ [][NextSlices]_vars

----------------------------------------------------------------------------
(* Properties of AllPages, under Spec. *)

Done == pc = "done"

\* the concatenation of the pages of the first n calls, in call order
RECURSIVE PagesUpTo(_)
PagesUpTo(n) ==
    IF n = 0 THEN <<>> ELSE PagesUpTo(n - 1) \o log[n].items.elems

\* call i ended the aggregation: an error, an absent token or a zero token
Terminating(i) ==
    \/ log[i].err # NoErr
    \/ log[i].newToken = Nil
    \/ heap[log[i].newToken] = Zero

\* call i returned no error and a present token whose value is zero
ZeroToken(i) ==
    /\ log[i].err = NoErr
    /\ log[i].newToken # Nil
    /\ heap[log[i].newToken] = Zero

\* C1: when AllPages returns without error after n fetch calls, the returned
\* items are exactly items(1) ++ ... ++ items(n), in call order and in the
\* order inside each page, the last page included.
C1_Concatenation ==
    (Done /\ ret.err = NoErr) => ret.items.elems = PagesUpTo(Len(log))

C1_Witness ==
    /\ Done
    /\ ret.err = NoErr
    /\ Len(log) = 2
    /\ log[1].items.elems = <<"a", "b">>
    /\ log[2].items.elems = <<"b", "a">>
    /\ ret.items.elems = <<"a", "b", "b", "a">>

C3_CallsUntilFirstTerminating ==
    /\ \A i \in 1..Len(log) : Terminating(i) <=> (Done /\ i = Len(log))
    /\ Done => (Len(log) >= 1 /\ ~ENABLED AllPagesStep)

C3_Witness ==
    /\ Done
    /\ Len(log) = 1
    /\ log[1].err = "mock"
    /\ ~ENABLED AllPagesStep

\* C4 as stated: a first call returning no items, an absent or zero token and
\* no error makes AllPages return no error and an empty, non-nil slice.
C4_EmptyNonNil ==
    (Done /\ Len(log) = 1 /\ log[1].err = NoErr /\ Len(log[1].items.elems) = 0)
        => (ret.err = NoErr /\ Len(ret.items.elems) = 0 /\ ~ret.items.isNil)

\* C4, amended: in that case AllPages returns no error and an empty slice,
\* which is the nil slice.
C4_EmptyIsNil ==
    (Done /\ Len(log) = 1 /\ log[1].err = NoErr /\ Len(log[1].items.elems) = 0)
        => ret = [items |-> NilSlice, err |-> NoErr]

C4_Witness ==
    /\ Done
    /\ Len(log) = 1
    /\ log[1].err = NoErr
    /\ log[1].items = MkSlice(<<>>)
    /\ log[1].newToken = Nil
    /\ ret.items.isNil

\* C5: as long as every fetch call returned no error and a present, non-zero
\* token, AllPages has not returned and the next fetch call is possible (up
\* to the MaxCalls calls the model follows): nothing but a terminating
\* result ends the loop.
C5_NeverReturnsWhilePaging ==
    (\A i \in 1..Len(log) : ~Terminating(i)) =>
        (pc = "loop" /\ (Len(log) < MaxCalls => ENABLED AllPagesStep))

C5_Witness ==
    /\ Len(log) = MaxCalls
    /\ \A i \in 1..Len(log) : ~Terminating(i)
    /\ pc = "loop"

\* C6: an absent token and a present zero token are treated alike: from every
\* state of the loop with a call to make and for every page, the iteration
\* on (page, absent) and on (page, zero token) both return, with the same
\* items and no error, after the same number of calls; so a zero token at
\* call k ends the aggregation at call k with the pages 1..k, whatever fetch
\* would have served next.
C6_AbsentAndZeroAlike ==
    /\ (pc = "loop" /\ Len(log) < MaxCalls) =>
          \A s \in Slices :
              LET absent == [items |-> s, newToken |-> Nil, err |-> NoErr, heap |-> heap]
                  zero == [items |-> s, newToken |-> Ptr(heap, Zero).ptr, err |-> NoErr,
                           heap |-> Ptr(heap, Zero).heap]
              IN  /\ Iteration(allItems, nextToken, absent).pc = "done"
                  /\ Iteration(allItems, nextToken, zero) = Iteration(allItems, nextToken, absent)
    /\ \A i \in 1..Len(log) :
          ZeroToken(i) =>
              /\ Done
              /\ i = Len(log)
              /\ ret = [items |-> ret.items, err |-> NoErr]
              /\ ret.items.elems = PagesUpTo(i)

C6_Witness ==
    /\ Done
    /\ Len(log) = 2
    /\ Len(log) < MaxCalls
    /\ ZeroToken(2)
    /\ ret.err = NoErr
    /\ ret.items.elems = PagesUpTo(2)
    /\ Len(ret.items.elems) > 0

\* C17: the first fetch call receives a nil token and every later call
\* receives exactly the token the call before it returned, which is also the
\* token AllPages holds for the next call; no call follows a terminating one.
C17_TokenThreading ==
    /\ Len(log) >= 1 => log[1].token = Nil
    /\ \A i \in 1..Len(log) :
          i < Len(log) =>
              /\ log[i + 1].token = log[i].newToken
              /\ ~Terminating(i)
    /\ (pc = "loop" /\ Len(log) >= 1) => nextToken = log[Len(log)].newToken

C17_Witness ==
    /\ Len(log) = 3
    /\ log[1].token = Nil
    /\ log[2].token = log[1].newToken
    /\ log[3].token = log[2].newToken
    /\ log[3].token # log[2].token

\* C18: every fetch call receives the context AllPages was given, and a
\* cancelled context does not stop the loop: the next fetch call stays
\* possible and AllPages returns only on a terminating fetch result.
C18_ContextForwardedNotInspected ==
    /\ \A i \in 1..Len(log) : log[i].ctx = "ctx"
    /\ (ctx.cancelled /\ pc = "loop" /\ Len(log) < MaxCalls) => ENABLED AllPagesStep
    /\ Done => Terminating(Len(log))

C18_Witness ==
    /\ Len(log) = 3
    /\ \A i \in 1..3 : log[i].cancelled /\ log[i].ctx = "ctx"
    /\ log[3].err = NoErr

----------------------------------------------------------------------------
(* Properties of the helpers, under SpecPure. *)

\* C7: FirstNonZero returns the element of smallest index that differs from
\* the zero value, and the zero value when there is none (or no element).
C7_FirstNonZero ==
    op = "FirstNonZero" =>
        LET e == args.elements
            nz == {i \in 1..Len(e) : e[i] # Zero}
        IN  /\ ~res.panic
            /\ nz = {} => res.val = Zero
            /\ nz # {} => \E i \in nz : (\A j \in nz : i <= j) /\ res.val = e[i]

C7_Witness ==
    /\ op = "FirstNonZero"
    /\ args.elements = <<0, 2, 1>>
    /\ res = Returned(2)

\* C8: Ptr(v) is a present reference and Value of it is v, for every v, the
\* zero value included.
C8_RoundTrip ==
    op = "Ptr" =>
        /\ ~res.panic
        /\ res.val # Nil
        /\ Value(heap, res.val) = Returned(args.o)

C8_Witness ==
    /\ op = "Ptr"
    /\ args.o = Zero
    /\ Len(heap) = 2
    /\ heap[1] # Zero
    /\ res.val = 2
    /\ Value(heap, res.val) = Returned(Zero)

\* C9: Value never faults: of a nil reference it is the zero value, of a
\* present reference the value referred to.
C9_ValueTotal ==
    op = "Value" =>
        /\ ~res.panic
        /\ args.o = Nil => res.val = Zero
        /\ args.o # Nil => res.val = heap[args.o]

C9_Witness ==
    /\ op = "Value"
    /\ args.o = Nil
    /\ Len(heap) > 0
    /\ res = Returned(Zero)

\* C10: If(c, a, b) is a when c is true and b when c is false.
C10_If ==
    op = "If" =>
        /\ ~res.panic
        /\ args.condition => res.val = args.ifTrue
        /\ ~args.condition => res.val = args.ifFalse

C10_Witness ==
    /\ op = "If"
    /\ ~args.condition
    /\ args.ifTrue # args.ifFalse
    /\ res.val = args.ifFalse

\* C11: IsZero(v) is true if and only if v is the zero value of its type.
C11_IsZero ==
    op = "IsZero" =>
        /\ ~res.panic
        /\ res.val \in BOOLEAN
        /\ args.value = 0 => res.val = TRUE
        /\ args.value \in {1, 2} => res.val = FALSE

C11_Witness ==
    /\ op = "IsZero"
    /\ args.value = 2
    /\ res = Returned(FALSE)

----------------------------------------------------------------------------
(* Properties of the slice helpers, under SpecSlices. *)

\* the number of occurrences of v in the sequence q
Count(q, v) == Cardinality({i \in 1..Len(q) : q[i] = v})

\* C12: Map(items, fn) has the length of items, its element i is
\* fn(items[i]), and fn is applied once per element, in order.
C12_Map ==
    op = "Map" =>
        LET in == args.items.elems
            out == res.val.elems
        IN  /\ ~res.panic
            /\ Len(out) = Len(in)
            /\ \A i \in 1..Len(in) : out[i] = args.fn[in[i]]
            /\ res.calls = in

C12_Witness ==
    /\ op = "Map"
    /\ args.items.elems = <<2, 1>>
    /\ args.fn[2] = "x"
    /\ args.fn[1] = "y"
    /\ res.val.elems = <<"x", "y">>

\* C13: Filter(items, p) holds exactly the elements of items for which p is
\* true, each as often as in items and in their original relative order;
\* no element for which p is false appears.
C13_Filter ==
    op = "Filter" =>
        LET in == args.items.elems
            out == res.val.elems
            Keep(x) == args.fn[x]
        IN  /\ ~res.panic
            /\ out = SelectSeq(in, Keep)
            /\ \A v \in Vals :
                  Count(out, v) = IF args.fn[v] THEN Count(in, v) ELSE 0

C13_Witness ==
    /\ op = "Filter"
    /\ args.items.elems = <<1, 2>>
    /\ ~args.fn[1]
    /\ args.fn[2]
    /\ res.val.elems = <<2>>

\* the concatenation fn(items[1]) ++ ... ++ fn(items[n])
RECURSIVE FlatUpTo(_, _, _)
FlatUpTo(in, fn, n) ==
    IF n = 0 THEN <<>> ELSE FlatUpTo(in, fn, n - 1) \o fn[in[n]].elems

\* C14: FlatMap(items, fn) is the concatenation of the sub-sequences
\* fn(items[0]), fn(items[1]), ... in input order.
C14_FlatMap ==
    op = "FlatMap" =>
        /\ ~res.panic
        /\ res.val.elems = FlatUpTo(args.items.elems, args.fn, Len(args.items.elems))

C14_Witness ==
    /\ op = "FlatMap"
    /\ args.items.elems = <<1, 2>>
    /\ args.fn[1] = MkSlice(<<"y", "x">>)
    /\ args.fn[2] = MkSlice(<<"x">>)
    /\ res.val.elems = <<"y", "x", "x">>

\* C15: the keys of MapFromSlice(items, v) are exactly the distinct elements
\* of items and every key is bound to v; no items give the empty map.
C15_MapFromSlice ==
    op = "MapFromSlice" =>
        LET in == args.items.elems
        IN  /\ ~res.panic
            /\ DOMAIN res.val = {in[i] : i \in 1..Len(in)}
            /\ \A k \in DOMAIN res.val : res.val[k] = args.value
            /\ Len(in) = 0 => DOMAIN res.val = {}

C15_Witness ==
    /\ op = "MapFromSlice"
    /\ args.items.elems = <<2, 2>>
    /\ args.value = TRUE
    /\ DOMAIN res.val = {2}
    /\ res.val[2] = TRUE

\* the calls C16 is about: Map of no items, Filter of no items or with a
\* predicate false for every element
EmptyOutputCall ==
    \/ op = "Map" /\ Len(args.items.elems) = 0
    \/ op = "Filter" /\ \A i \in 1..Len(args.items.elems) : ~args.fn[args.items.elems[i]]

\* C16 as stated: these calls return an empty, non-nil slice.
C16_EmptyNonNil ==
    EmptyOutputCall => (Len(res.val.elems) = 0 /\ ~res.val.isNil)

\* C16, amended: these calls return an empty slice, which is the nil slice.
C16_EmptyIsNil ==
    EmptyOutputCall => res.val = NilSlice

C16_Witness ==
    /\ op = "Filter"
    /\ args.items = MkSlice(<<1, 2>>)
    /\ ~args.fn[1]
    /\ ~args.fn[2]
    /\ res.val.isNil

====
